---- MODULE Spec2Model ----
(***************************************************************************)
(* A model of the event-scoring service: the bounded admission queue       *)
(* (app/api.py), the inference worker pool and the persistence timer       *)
(* (app/workers.py), the windowed store with its snapshot file             *)
(* (app/state.py) and the startup/shutdown wiring (app/lifespan.py).       *)
(*                                                                         *)
(* Tasks are asyncio coroutines: a step of the model is the code a task    *)
(* runs from one await to the next.  The bodies of `async with self._lock` *)
(* contain no await, so each locked section is one step.                   *)
(*                                                                         *)
(* Floats are modelled by integers.  Scores are multiples of 4 so that the *)
(* two halvings of a median of medians are exact.                          *)
(***************************************************************************)
EXTENDS Integers, Sequences, FiniteSets, TLC

\* ---------------------------------------------------------------- bounds
MaxTs == 2              \* event timestamps range over 1..MaxTs
StartTime == 2          \* the wall clock when the process starts
MaxNow == 4             \* the wall clock does not pass MaxNow
MaxWindow == 3          \* entries of a window the store starts with
MaxRestarts == 1        \* crashes followed by a restart
MaxBatch == 2           \* events per ingest batch: 0..MaxBatch
NumRequests == 2        \* ingest requests issued
QueueMaxsize == 1       \* queue_maxsize of the model's AppState
WindowSeconds == 1      \* window_seconds of the model's AppState
NumWorkers == 2         \* inference workers started by lifespan

Users == {"u1", "u2"}
Timestamps == 1..MaxTs
Workers == 1..NumWorkers
Requests == 1..NumRequests

\* ------------------------------------------------------- program constants
in_dim == 3             \* input width of the scoring network
PosInf == 1000          \* float("inf"); every finite score is below it
NegInf == -1000         \* float("-inf"); every finite score is above it

\* feature vectors a client may send; a vector whose length is not in_dim
\* makes the network's first Linear layer raise
FeatureVectors == {<<4, 0, 0>>, <<4, 4, 0>>, <<4>>}

Events == [user_id : Users, timestamp : Timestamps, features : FeatureVectors]

NoEvent == [user_id |-> "", timestamp |-> 0, features |-> <<>>]

\* ------------------------------------------------------------ pure helpers

\* Python's tuple comparison (a < b) on (timestamp, score) pairs
TupleLt(a, b) == a[1] < b[1] \/ (a[1] = b[1] /\ a[2] < b[2])

\* bisect.bisect_left(a, x): the loop of the standard library
RECURSIVE BisectLeftLoop(_, _, _, _)
BisectLeftLoop(a, x, lo, hi) ==
    IF lo < hi
    THEN LET mid == (lo + hi) \div 2
         IN IF TupleLt(a[mid + 1], x)
            THEN BisectLeftLoop(a, x, mid + 1, hi)
            ELSE BisectLeftLoop(a, x, lo, mid)
    ELSE lo

bisect_left(a, x) == BisectLeftLoop(a, x, 0, Len(a))

\* bisect.bisect_right(a, x)
RECURSIVE BisectRightLoop(_, _, _, _)
BisectRightLoop(a, x, lo, hi) ==
    IF lo < hi
    THEN LET mid == (lo + hi) \div 2
         IN IF TupleLt(x, a[mid + 1])
            THEN BisectRightLoop(a, x, lo, mid)
            ELSE BisectRightLoop(a, x, mid + 1, hi)
    ELSE lo

bisect_right(a, x) == BisectRightLoop(a, x, 0, Len(a))

\* list.insert(idx, item)
ListInsert(a, idx, item) ==
    SubSeq(a, 1, idx) \o <<item>> \o SubSeq(a, idx + 1, Len(a))

\* a[idx:]
SliceFrom(a, idx) == SubSeq(a, idx + 1, Len(a))

\* sorted(data) for a list of numbers
RECURSIVE InsertNum(_, _)
InsertNum(s, v) ==
    IF s = <<>> THEN <<v>>
    ELSE IF v < Head(s) THEN <<v>> \o s
    ELSE <<Head(s)>> \o InsertNum(Tail(s), v)

RECURSIVE sorted(_)
sorted(data) ==
    IF data = <<>> THEN <<>>
    ELSE InsertNum(sorted(SubSeq(data, 1, Len(data) - 1)), data[Len(data)])

\* statistics.median(data) for a non-empty list
median(data) ==
    LET d == sorted(data)
        n == Len(d)
    IN IF n % 2 = 1
       THEN d[(n \div 2) + 1]
       ELSE (d[n \div 2] + d[(n \div 2) + 1]) \div 2

\* [score for _, score in window]
ScoresOf(window) == [i \in 1..Len(window) |-> window[i][2]]

\* InefficientModel.forward on one feature vector (a stand-in for the
\* network's arithmetic); defined only for vectors of length in_dim
ScorerRaises(features) == Len(features) # in_dim

Forward(features) == features[1] + features[2] + features[3]

\* ------------------------------------------------------------------ state
VARIABLES
    event_queue,            \* AppState.event_queue: the items of the asyncio.Queue
    user_windows,           \* AppState.user_windows: user_id -> list of (timestamp, score)
    window_seconds,         \* AppState.window_seconds
    ingest_requests_total,  \* AppState.ingest_requests_total
    events_received_total,  \* AppState.events_received_total
    ingest_last_ts,         \* AppState.ingest_last_ts
    inference_calls,        \* AppState.inference_calls
    queue_rejections,       \* AppState.queue_rejections
    state_file,             \* AppState.state_file: a path, or None
    files,                  \* the file system: path -> content
    now,                    \* the wall clock, time.time()
    lifespan,               \* where app/lifespan.py's lifespan() stands
    restarts,               \* how often the process was killed and started again
    worker,                 \* the inference_worker tasks
    persistence,            \* the persistence_worker task
    request,                \* the POST /ingest calls
    user_query,             \* the GET /users/{user_id}/median call
    stats_query             \* the GET /stats call

counters == <<ingest_requests_total, events_received_total, ingest_last_ts,
              inference_calls, queue_rejections>>

store == <<user_windows, window_seconds, counters>>

tasks == <<worker, persistence>>

calls == <<request, user_query, stats_query>>

vars == <<event_queue, store, state_file, files, now, lifespan, restarts, tasks, calls>>

\* ------------------------------------------------------- store operations

\* defaultdict(list) with no key
EmptyWindows == [u \in {} |-> <<>>]

\* self.user_windows[user_id] on the defaultdict(list)
WindowOf(windows, user_id) ==
    IF user_id \in DOMAIN windows THEN windows[user_id] ELSE <<>>

\* insert_user_window with window.append in place of the bisect insert
InsertAtEnd(windows, user_id, timestamp, score) ==
    [u \in DOMAIN windows \cup {user_id} |->
        IF u = user_id
        THEN Append(WindowOf(windows, user_id), <<timestamp, score>>)
        ELSE windows[u]]

\* AppState.insert_user_window: the user_windows it leaves
InsertUserWindow(windows, user_id, timestamp, score) ==
    LET window == WindowOf(windows, user_id)
        idx == bisect_right(window, <<timestamp, PosInf>>)
    IN [u \in DOMAIN windows \cup {user_id} |->
            IF u = user_id
            THEN ListInsert(window, idx, <<timestamp, score>>)
            ELSE windows[u]]

\* trim_user_window with an index that also drops the entries at the cutoff
TrimPastCutoff(windows, user_id, cutoff) ==
    IF user_id \notin DOMAIN windows \/ windows[user_id] = <<>>
    THEN [windows |-> windows, ret |-> <<>>]
    ELSE LET window == windows[user_id]
             idx == bisect_right(window, <<cutoff, PosInf>>)
             kept == IF idx > 0 THEN SliceFrom(window, idx) ELSE window
         IN [windows |-> [windows EXCEPT ![user_id] = kept], ret |-> kept]

\* trim_user_window deleting window[:idx + 1] whatever idx is
TrimDropsOneMore(windows, user_id, cutoff) ==
    IF user_id \notin DOMAIN windows \/ windows[user_id] = <<>>
    THEN [windows |-> windows, ret |-> <<>>]
    ELSE LET window == windows[user_id]
             idx == bisect_left(window, <<cutoff, NegInf>>)
             kept == SliceFrom(window, idx + 1)
         IN [windows |-> [windows EXCEPT ![user_id] = kept], ret |-> kept]

\* trim_user_window deleting window[idx:] in place of window[:idx]
TrimKeepsPrefix(windows, user_id, cutoff) ==
    IF user_id \notin DOMAIN windows \/ windows[user_id] = <<>>
    THEN [windows |-> windows, ret |-> <<>>]
    ELSE LET window == windows[user_id]
             idx == bisect_left(window, <<cutoff, NegInf>>)
             kept == IF idx > 0 THEN SubSeq(window, 1, idx) ELSE window
         IN [windows |-> [windows EXCEPT ![user_id] = kept], ret |-> kept]

\* trim_user_window reading self.user_windows[user_id], which on a
\* defaultdict(list) creates the entry of a user that has none
TrimCreatesEntry(windows, user_id, cutoff) ==
    IF user_id \notin DOMAIN windows
    THEN [windows |-> [u \in DOMAIN windows \cup {user_id} |->
                            IF u = user_id THEN <<>> ELSE windows[u]],
          ret |-> <<>>]
    ELSE IF windows[user_id] = <<>>
    THEN [windows |-> windows, ret |-> <<>>]
    ELSE LET window == windows[user_id]
             idx == bisect_left(window, <<cutoff, NegInf>>)
             kept == IF idx > 0 THEN SliceFrom(window, idx) ELSE window
         IN [windows |-> [windows EXCEPT ![user_id] = kept], ret |-> kept]

\* AppState.trim_user_window: the user_windows it leaves and the list it returns
TrimUserWindow(windows, user_id, cutoff) ==
    IF user_id \notin DOMAIN windows \/ windows[user_id] = <<>>
    THEN [windows |-> windows, ret |-> <<>>]
    ELSE LET window == windows[user_id]
             idx == bisect_left(window, <<cutoff, NegInf>>)
             kept == IF idx > 0 THEN SliceFrom(window, idx) ELSE window
         IN [windows |-> [windows EXCEPT ![user_id] = kept], ret |-> kept]

\* AppState.median_of_medians, the locked part: the copy of every non-empty window
WindowsSnapshot(windows) ==
    LET keep == {u \in DOMAIN windows : windows[u] # <<>>}
    IN [u \in keep |-> windows[u]]

\* AppState.median_of_medians, the loop over the snapshot: the list of medians
RECURSIVE MediansOf(_, _, _)
MediansOf(snapshot, todo, cutoff) ==
    IF todo = {} THEN <<>>
    ELSE LET u == CHOOSE x \in todo : TRUE
             window == snapshot[u]
             idx == bisect_left(window, <<cutoff, NegInf>>)
             rest == MediansOf(snapshot, todo \ {u}, cutoff)
         IN IF idx >= Len(window)
            THEN rest
            ELSE <<median(ScoresOf(SliceFrom(window, idx)))>> \o rest

NoData == [kind |-> "none", value |-> 0]

\* median_of_medians answering 0 where it has no median to give
MedianOrZero(snapshot, cutoff) ==
    LET medians == MediansOf(snapshot, DOMAIN snapshot, cutoff)
    IN [kind |-> "value", value |-> IF medians = <<>> THEN 0 ELSE median(medians)]

\* AppState.median_of_medians, after the lock: None, or the median of the medians
MedianOfSnapshot(snapshot, cutoff) ==
    LET medians == MediansOf(snapshot, DOMAIN snapshot, cutoff)
    IN IF medians = <<>>
       THEN NoData
       ELSE [kind |-> "value", value |-> median(medians)]

\* ---------------------------------------------------- snapshot file format

None == "None"
StateFilePath == "state.json"       \* DEFAULT_STATE_FILE

\* a temp path that is the path itself
WithSameSuffix(path) == path

\* path.with_suffix(".tmp")
WithSuffixTmp(path) == IF path = "state.json" THEN "state.tmp" ELSE path

Paths == {StateFilePath, WithSuffixTmp(StateFilePath)}

\* a JSON object is a function from its keys to its values
EmptyObject == [k \in {} |-> 0]

\* file contents: no file; text json.load cannot parse; the prefix of a dump
\* still being written; a document whose top level is a list; a document
\* whose top level is an object
Absent == [kind |-> "absent", value |-> EmptyObject]
Garbage == [kind |-> "garbage", value |-> EmptyObject]
Partial == [kind |-> "partial", value |-> EmptyObject]
ArrayDoc == [kind |-> "array", value |-> EmptyObject]
ObjectDoc(obj) == [kind |-> "object", value |-> obj]

\* the AppState fields save_to_file and load_from_file deal with
StoreRecord(ws, uw, irt, ert, ilt, ic, qr) ==
    [window_seconds |-> ws, user_windows |-> uw, ingest_requests_total |-> irt,
     events_received_total |-> ert, ingest_last_ts |-> ilt,
     inference_calls |-> ic, queue_rejections |-> qr]

CurrentStore ==
    StoreRecord(window_seconds, user_windows, ingest_requests_total,
                events_received_total, ingest_last_ts, inference_calls,
                queue_rejections)

\* a store as AppState.__init__ leaves it
DefaultStore == StoreRecord(WindowSeconds, EmptyWindows, 0, 0, 0, 0, 0)

\* save_to_file writing the inference counter under the name the statistics
\* use, which load_from_file does not read
SaveDataRenamed(s) ==
    ("window_seconds" :> s.window_seconds)
    @@ ("user_windows" :> [u \in DOMAIN s.user_windows |-> s.user_windows[u]])
    @@ ("ingest_requests_total" :> s.ingest_requests_total)
    @@ ("events_received_total" :> s.events_received_total)
    @@ ("ingest_last_ts" :> s.ingest_last_ts)
    @@ ("inference_calls_total" :> s.inference_calls)
    @@ ("queue_rejections" :> s.queue_rejections)

\* save_to_file: the dict built under the lock
SaveData(s) ==
    ("window_seconds" :> s.window_seconds)
    @@ ("user_windows" :> [u \in DOMAIN s.user_windows |-> s.user_windows[u]])
    @@ ("ingest_requests_total" :> s.ingest_requests_total)
    @@ ("events_received_total" :> s.events_received_total)
    @@ ("ingest_last_ts" :> s.ingest_last_ts)
    @@ ("inference_calls" :> s.inference_calls)
    @@ ("queue_rejections" :> s.queue_rejections)

\* data.get(key, default)
DictGet(data, key, default) == IF key \in DOMAIN data THEN data[key] ELSE default

\* "for ts, score in window" unpacks every entry into exactly two items
Unpackable(windows) ==
    \A u \in DOMAIN windows : \A i \in 1..Len(windows[u]) : Len(windows[u][i]) = 2

\* {user: [(int(ts), float(score)) for ts, score in window] ...}
LoadWindows(windows) ==
    [u \in DOMAIN windows |->
        [i \in 1..Len(windows[u]) |-> <<windows[u][i][1], windows[u][i][2]>>]]

\* load_from_file on a store s: whether the call raises, and the store it leaves
LoadFromFile(s, path, fs) ==
    IF path = None \/ fs[path].kind = "absent"
    THEN [raised |-> FALSE, store |-> s]
    ELSE IF fs[path].kind \in {"garbage", "partial"}
    THEN [raised |-> FALSE, store |-> s]        \* json.load raises: except, return
    ELSE IF fs[path].kind # "object"
    THEN [raised |-> TRUE, store |-> s]         \* data.get: AttributeError
    ELSE LET data == fs[path].value
             s1 == [s EXCEPT !.window_seconds =
                        DictGet(data, "window_seconds", s.window_seconds)]
             uw == DictGet(data, "user_windows", EmptyWindows)
         IN IF ~Unpackable(uw)
            THEN [raised |-> TRUE, store |-> s1]    \* ValueError in the comprehension
            ELSE [raised |-> FALSE, store |->
                    [s1 EXCEPT
                        !.user_windows = LoadWindows(uw),
                        !.ingest_requests_total =
                            DictGet(data, "ingest_requests_total", s.ingest_requests_total),
                        !.events_received_total =
                            DictGet(data, "events_received_total", s.events_received_total),
                        !.ingest_last_ts =
                            DictGet(data, "ingest_last_ts", s.ingest_last_ts),
                        !.inference_calls =
                            DictGet(data, "inference_calls", s.inference_calls),
                        !.queue_rejections =
                            DictGet(data, "queue_rejections", s.queue_rejections)]]

\* ------------------------------------------------------------------- Init

NewWorker == [pc |-> "new", event |-> NoEvent, score |-> 0]

IdleWorker == [pc |-> "get", event |-> NoEvent, score |-> 0]

NoPersistence == [pc |-> "none", data |-> EmptyObject]

NewRequest == [pc |-> "new", batch_size |-> 0, accepted |-> 0, status |-> "none"]

IdleUserQuery == [pc |-> "idle", user_id |-> "", cutoff |-> 0, window |-> <<>>,
                  response |-> NoData]

IdleStatsQuery == [pc |-> "idle", cutoff |-> 0, snapshot |-> EmptyWindows,
                   response |-> NoData]

\* AppState.__init__
InitStore ==
    /\ event_queue = <<>>
    /\ user_windows = EmptyWindows
    /\ window_seconds = WindowSeconds
    /\ ingest_requests_total = 0
    /\ events_received_total = 0
    /\ ingest_last_ts = 0
    /\ inference_calls = 0
    /\ queue_rejections = 0

\* the process before lifespan() runs
InitProcess ==
    /\ now = StartTime
    /\ lifespan = "new"
    /\ restarts = 0
    /\ worker = [w \in Workers |-> NewWorker]
    /\ persistence = NoPersistence
    /\ request = [r \in Requests |-> NewRequest]
    /\ user_query = IdleUserQuery
    /\ stats_query = IdleStatsQuery

\* a service configured without a state file (STATE_FILE_PATH unset to None)
Init ==
    /\ InitStore
    /\ InitProcess
    /\ state_file = None
    /\ files = [p \in Paths |-> Absent]

\* ------------------------------------------------------------------ lifespan

\* the event loop is free to run another task: save_to_file has no await
\* between leaving the lock and tmp_path.replace(path)
LoopFree == persistence.pc \notin {"open", "dump", "replace"}

Serving == lifespan = "running" /\ LoopFree

\* lifespan() up to its yield: load_from_file, then the tasks are created
LifespanStartup ==
    /\ lifespan = "new"
    /\ LET l == LoadFromFile(CurrentStore, state_file, files)
       IN /\ window_seconds' = l.store.window_seconds
          /\ user_windows' = l.store.user_windows
          /\ ingest_requests_total' = l.store.ingest_requests_total
          /\ events_received_total' = l.store.events_received_total
          /\ ingest_last_ts' = l.store.ingest_last_ts
          /\ inference_calls' = l.store.inference_calls
          /\ queue_rejections' = l.store.queue_rejections
          /\ lifespan' = IF l.raised THEN "failed" ELSE "running"
          /\ worker' = IF l.raised THEN worker ELSE [w \in Workers |-> IdleWorker]
          /\ persistence' = IF l.raised \/ state_file = None
                            THEN persistence
                            ELSE [pc |-> "sleep", data |-> EmptyObject]
    /\ UNCHANGED <<event_queue, state_file, files, now, restarts, calls>>

\* a task that task.cancel() finds suspended at an await ends there with
\* CancelledError
CancelledWorker(t) ==
    IF t.pc \in {"get", "insert", "trim"}
    THEN [pc |-> "cancelled", event |-> NoEvent, score |-> 0]
    ELSE t

\* shutdown, once the server has let the calls in progress finish:
\* task.cancel() for every task
LifespanCancel ==
    /\ Serving
    /\ \A r \in Requests : request[r].pc \in {"new", "done"}
    /\ user_query.pc = "idle" /\ stats_query.pc = "idle"
    /\ lifespan' = "cancelled"
    /\ worker' = [w \in Workers |-> CancelledWorker(worker[w])]
    /\ persistence' = IF persistence.pc = "sleep"
                      THEN [pc |-> "cancelled", data |-> EmptyObject]
                      ELSE persistence
    /\ UNCHANGED <<event_queue, store, state_file, files, now, restarts, calls>>

\* "with suppress(CancelledError): await task" for every task: the exception
\* of a worker that ended by raising is raised again here and ends lifespan()
LifespanAwait ==
    /\ lifespan = "cancelled"
    /\ lifespan' = IF \E w \in Workers : worker[w].pc = "raised"
                   THEN "aborted" ELSE "awaited"
    /\ UNCHANGED <<event_queue, store, state_file, files, now, restarts, tasks, calls>>

\* app_state.save_to_file(app_state.state_file) without await: the call
\* builds a coroutine object that is never run, so nothing is written
LifespanFinalSave ==
    /\ lifespan = "awaited"
    /\ lifespan' = "stopped"
    /\ UNCHANGED <<event_queue, store, state_file, files, now, restarts, tasks, calls>>

\* the process is killed at any point and started again: memory is lost,
\* the files stay as they are
Crash ==
    /\ restarts < MaxRestarts
    /\ restarts' = restarts + 1
    /\ event_queue' = <<>>
    /\ user_windows' = EmptyWindows
    /\ window_seconds' = WindowSeconds
    /\ ingest_requests_total' = 0
    /\ events_received_total' = 0
    /\ ingest_last_ts' = 0
    /\ inference_calls' = 0
    /\ queue_rejections' = 0
    /\ lifespan' = "new"
    /\ worker' = [w \in Workers |-> NewWorker]
    /\ persistence' = NoPersistence
    /\ request' = [r \in Requests |-> NewRequest]
    /\ user_query' = IdleUserQuery
    /\ stats_query' = IdleStatsQuery
    /\ UNCHANGED <<state_file, files, now>>

\* ----------------------------------------------------------------- clock

Tick ==
    /\ now < MaxNow
    /\ now' = now + 1
    /\ UNCHANGED <<event_queue, store, state_file, files, lifespan, restarts,
                   tasks, calls>>

\* ------------------------------------------------------------ POST /ingest

\* the handler is entered with a batch of batch_size events (the calls are
\* numbered in the order in which they start)
IngestBegin(r, n) ==
    /\ Serving
    /\ request[r].pc = "new"
    /\ \A q \in Requests : q < r => request[q].pc # "new"
    /\ request' = [request EXCEPT ![r] =
            [pc |-> IF n = 0 THEN "record" ELSE "put",
             batch_size |-> n, accepted |-> 0, status |-> "none"]]
    /\ UNCHANGED <<event_queue, store, state_file, files, now, lifespan, restarts,
                   tasks, user_query, stats_query>>

\* wait_for(event_queue.put(event), 0.05) finds a free slot: accepted += 1
IngestPut(r, event) ==
    /\ Serving
    /\ request[r].pc = "put"
    /\ Len(event_queue) < QueueMaxsize
    /\ event_queue' = Append(event_queue, event)
    /\ request' = [request EXCEPT ![r].accepted = @ + 1,
            ![r].pc = IF request[r].accepted + 1 = request[r].batch_size
                      THEN "record" ELSE "put"]
    /\ UNCHANGED <<store, state_file, files, now, lifespan, restarts, tasks,
                   user_query, stats_query>>

\* the rejection without its count
IngestRejectUncounted(r) ==
    /\ Serving
    /\ request[r].pc = "put"
    /\ Len(event_queue) >= QueueMaxsize
    /\ request' = [request EXCEPT ![r].pc = "done", ![r].status = "503"]
    /\ UNCHANGED <<event_queue, store, state_file, files, now, lifespan, restarts,
                   tasks, user_query, stats_query>>

\* the put times out on the full queue: queue_rejections += 1, HTTPException(503)
IngestReject(r) ==
    /\ Serving
    /\ request[r].pc = "put"
    /\ Len(event_queue) >= QueueMaxsize
    /\ queue_rejections' = queue_rejections + 1
    /\ request' = [request EXCEPT ![r].pc = "done", ![r].status = "503"]
    /\ UNCHANGED <<event_queue, user_windows, window_seconds, ingest_requests_total,
                   events_received_total, ingest_last_ts, inference_calls,
                   state_file, files, now, lifespan, restarts, tasks,
                   user_query, stats_query>>

\* record_ingest assigning the batch size to events_received_total
IngestRecordAssigns(r) ==
    /\ Serving
    /\ request[r].pc = "record"
    /\ ingest_requests_total' = ingest_requests_total + 1
    /\ events_received_total' = request[r].accepted
    /\ ingest_last_ts' = now
    /\ request' = [request EXCEPT ![r].pc = "done", ![r].status = "ok"]
    /\ UNCHANGED <<event_queue, user_windows, window_seconds, inference_calls,
                   queue_rejections, state_file, files, now, lifespan, restarts,
                   tasks, user_query, stats_query>>

\* AppState.record_ingest(accepted), then the 200 response
IngestRecord(r) ==
    /\ Serving
    /\ request[r].pc = "record"
    /\ ingest_requests_total' = ingest_requests_total + 1
    /\ events_received_total' = events_received_total + request[r].accepted
    /\ ingest_last_ts' = now
    /\ request' = [request EXCEPT ![r].pc = "done", ![r].status = "ok"]
    /\ UNCHANGED <<event_queue, user_windows, window_seconds, inference_calls,
                   queue_rejections, state_file, files, now, lifespan, restarts,
                   tasks, user_query, stats_query>>

\* -------------------------------------------------------- inference_worker

\* a worker that reads the head of the queue and leaves it queued
WorkerScoreKeepsHead(w) ==
    /\ Serving
    /\ worker[w].pc = "get"
    /\ event_queue # <<>>
    /\ ~ScorerRaises(Head(event_queue).features)
    /\ inference_calls' = inference_calls + 1
    /\ worker' = [worker EXCEPT ![w] =
            [pc |-> "insert", event |-> Head(event_queue),
             score |-> Forward(Head(event_queue).features)]]
    /\ UNCHANGED <<event_queue, user_windows, window_seconds, ingest_requests_total,
                   events_received_total, ingest_last_ts, queue_rejections,
                   state_file, files, now, lifespan, restarts, persistence, calls>>

\* event_queue.get() returns an event, the model scores it:
\* inference_calls += 1, and the worker goes on to insert_user_window
WorkerScore(w) ==
    /\ Serving
    /\ worker[w].pc = "get"
    /\ event_queue # <<>>
    /\ ~ScorerRaises(Head(event_queue).features)
    /\ event_queue' = Tail(event_queue)
    /\ inference_calls' = inference_calls + 1
    /\ worker' = [worker EXCEPT ![w] =
            [pc |-> "insert", event |-> Head(event_queue),
             score |-> Forward(Head(event_queue).features)]]
    /\ UNCHANGED <<user_windows, window_seconds, ingest_requests_total,
                   events_received_total, ingest_last_ts, queue_rejections,
                   state_file, files, now, lifespan, restarts, persistence, calls>>

\* event_queue.get() returns an event and the model raises on it: nothing in
\* the loop catches the exception, so it ends the worker's coroutine
WorkerScoreRaises(w) ==
    /\ Serving
    /\ worker[w].pc = "get"
    /\ event_queue # <<>>
    /\ ScorerRaises(Head(event_queue).features)
    /\ event_queue' = Tail(event_queue)
    /\ worker' = [worker EXCEPT ![w] =
            [pc |-> "raised", event |-> NoEvent, score |-> 0]]
    /\ UNCHANGED <<store, state_file, files, now, lifespan, restarts, persistence,
                   calls>>

\* await state.insert_user_window(event.user_id, event.timestamp, score)
WorkerInsert(w) ==
    /\ Serving
    /\ worker[w].pc = "insert"
    /\ user_windows' = InsertUserWindow(user_windows, worker[w].event.user_id,
                                        worker[w].event.timestamp, worker[w].score)
    /\ worker' = [worker EXCEPT ![w].pc = "trim"]
    /\ UNCHANGED <<event_queue, window_seconds, counters, state_file, files, now,
                   lifespan, restarts, persistence, calls>>

\* an inference_worker without its "while True": the task ends after one event
WorkerTrimExits(w) ==
    /\ Serving
    /\ worker[w].pc = "trim"
    /\ user_windows' = TrimUserWindow(user_windows, worker[w].event.user_id,
                           worker[w].event.timestamp - window_seconds).windows
    /\ worker' = [worker EXCEPT ![w] = [pc |-> "exited", event |-> NoEvent, score |-> 0]]
    /\ UNCHANGED <<event_queue, window_seconds, counters, state_file, files, now,
                   lifespan, restarts, persistence, calls>>

\* cutoff = event.timestamp - window_seconds; await state.trim_user_window(...);
\* event_queue.task_done()
WorkerTrim(w) ==
    /\ Serving
    /\ worker[w].pc = "trim"
    /\ user_windows' = TrimUserWindow(user_windows, worker[w].event.user_id,
                           worker[w].event.timestamp - window_seconds).windows
    /\ worker' = [worker EXCEPT ![w] = IdleWorker]
    /\ UNCHANGED <<event_queue, window_seconds, counters, state_file, files, now,
                   lifespan, restarts, persistence, calls>>

\* ------------------------------------------------------ persistence_worker

\* asyncio.sleep(interval_seconds) is over and save_to_file builds its dict
\* under the lock
SaveCapture ==
    /\ Serving
    /\ persistence.pc = "sleep"
    /\ persistence' = [pc |-> "open", data |-> SaveData(CurrentStore)]
    /\ UNCHANGED <<event_queue, store, state_file, files, now, lifespan, restarts,
                   worker, calls>>

\* tmp_path.open("w"): the temp file exists and is empty
SaveOpenTmp ==
    /\ persistence.pc = "open"
    /\ files' = [files EXCEPT ![WithSuffixTmp(state_file)] = Partial]
    /\ persistence' = [persistence EXCEPT !.pc = "dump"]
    /\ UNCHANGED <<event_queue, store, state_file, now, lifespan, restarts, worker,
                   calls>>

\* json.dump(data, f) and the close of the file: the temp file is complete
SaveDump ==
    /\ persistence.pc = "dump"
    /\ files' = [files EXCEPT ![WithSuffixTmp(state_file)] = ObjectDoc(persistence.data)]
    /\ persistence' = [persistence EXCEPT !.pc = "replace"]
    /\ UNCHANGED <<event_queue, store, state_file, now, lifespan, restarts, worker,
                   calls>>

\* a persistence_worker without its try/except: the OSError of the write ends
\* the task
SaveDumpFailsKills ==
    /\ persistence.pc = "dump"
    /\ persistence' = [pc |-> "raised", data |-> EmptyObject]
    /\ UNCHANGED <<event_queue, store, state_file, files, now, lifespan, restarts,
                   worker, calls>>

\* the write raises OSError part way: save_to_file raises, persistence_worker's
\* "except Exception: pass" swallows it and the loop sleeps again
SaveDumpFails ==
    /\ persistence.pc = "dump"
    /\ persistence' = [pc |-> "sleep", data |-> EmptyObject]
    /\ UNCHANGED <<event_queue, store, state_file, files, now, lifespan, restarts,
                   worker, calls>>

\* tmp_path.replace(path): one rename
SaveReplace ==
    /\ persistence.pc = "replace"
    /\ files' = [files EXCEPT ![state_file] = files[WithSuffixTmp(state_file)],
                              ![WithSuffixTmp(state_file)] = Absent]
    /\ persistence' = [pc |-> "sleep", data |-> EmptyObject]
    /\ UNCHANGED <<event_queue, store, state_file, now, lifespan, restarts, worker,
                   calls>>

\* ------------------------------------------------- GET /users/{id}/median

\* now = int(time.time()); window = await state.trim_user_window(user_id, cutoff)
UserMedianTrim(u) ==
    /\ Serving
    /\ user_query.pc = "idle"
    /\ LET cutoff == now - window_seconds
           t == TrimUserWindow(user_windows, u, cutoff)
       IN /\ user_windows' = t.windows
          /\ user_query' = [pc |-> "trimmed", user_id |-> u, cutoff |-> cutoff,
                            window |-> t.ret, response |-> NoData]
    /\ UNCHANGED <<event_queue, window_seconds, counters, state_file, files, now,
                   lifespan, restarts, tasks, request, stats_query>>

\* 404 when the window is empty, else the median of its scores
UserMedianRespond ==
    /\ Serving
    /\ user_query.pc = "trimmed"
    /\ user_query' = [IdleUserQuery EXCEPT
            !.response = IF user_query.window = <<>>
                         THEN NoData
                         ELSE [kind |-> "value",
                               value |-> median(ScoresOf(user_query.window))]]
    /\ UNCHANGED <<event_queue, store, state_file, files, now, lifespan, restarts,
                   tasks, request, stats_query>>

\* --------------------------------------------------------------- GET /stats

\* median_of_medians deleting, in its locked section, the entries before the
\* cutoff from every stored window
StatsSnapshotTrims ==
    /\ Serving
    /\ stats_query.pc = "idle"
    /\ LET cutoff == now - window_seconds
           trimmed == [u \in DOMAIN user_windows |->
                          SliceFrom(user_windows[u],
                                    bisect_left(user_windows[u], <<cutoff, NegInf>>))]
       IN /\ user_windows' = trimmed
          /\ stats_query' = [pc |-> "snapshot", cutoff |-> cutoff,
                             snapshot |-> WindowsSnapshot(trimmed),
                             response |-> NoData]
    /\ UNCHANGED <<event_queue, window_seconds, counters, state_file, files, now,
                   lifespan, restarts, tasks, request, user_query>>

\* reference_ts = int(time.time()); median_of_medians up to the end of its
\* locked section: the cutoff and the snapshot (the counters the handler reads
\* into its response are not kept)
StatsSnapshot ==
    /\ Serving
    /\ stats_query.pc = "idle"
    /\ stats_query' = [pc |-> "snapshot", cutoff |-> now - window_seconds,
                       snapshot |-> WindowsSnapshot(user_windows),
                       response |-> NoData]
    /\ UNCHANGED <<event_queue, store, state_file, files, now, lifespan, restarts,
                   tasks, request, user_query>>

\* median_of_medians looping over self.user_windows in place of its copy
StatsReturnReadsStore ==
    /\ Serving
    /\ stats_query.pc = "snapshot"
    /\ stats_query' = [pc |-> "idle", cutoff |-> stats_query.cutoff,
                       snapshot |-> EmptyWindows,
                       response |-> MedianOfSnapshot(WindowsSnapshot(user_windows),
                                                     stats_query.cutoff)]
    /\ UNCHANGED <<event_queue, store, state_file, files, now, lifespan, restarts,
                   tasks, request, user_query>>

\* median_of_medians after the lock, and the response
StatsReturn ==
    /\ Serving
    /\ stats_query.pc = "snapshot"
    /\ stats_query' = [pc |-> "idle", cutoff |-> stats_query.cutoff,
                       snapshot |-> EmptyWindows,
                       response |-> MedianOfSnapshot(stats_query.snapshot,
                                                     stats_query.cutoff)]
    /\ UNCHANGED <<event_queue, store, state_file, files, now, lifespan, restarts,
                   tasks, request, user_query>>

\* ------------------------------------------------------------------ the lock

\* the steps that run inside "async with self._lock", each named by the task
\* that takes it and the place the task takes it from: insert_user_window and
\* trim_user_window called by a worker, record_ingest called by ingest,
\* trim_user_window called by get_user_median, the snapshot of
\* median_of_medians, the dict of save_to_file, and load_from_file at startup.
\* The scoring step of a worker ("get") and the rejection of a put ("put") are
\* not among them: they write their counters on the AppState directly
LockedSections ==
    {<<"worker", "insert">>, <<"worker", "trim">>, <<"request", "record">>,
     <<"user_query", "idle">>, <<"stats_query", "idle">>,
     <<"persistence", "sleep">>, <<"lifespan", "new">>}

\* the tasks that take the step, each with the place it takes it from
Stepping ==
    {<<"worker", w, worker[w].pc>> : w \in {x \in Workers : worker'[x] # worker[x]}}
    \cup {<<"request", r, request[r].pc>> :
            r \in {x \in Requests : request'[x] # request[x]}}
    \cup (IF user_query' # user_query
          THEN {<<"user_query", 0, user_query.pc>>} ELSE {})
    \cup (IF stats_query' # stats_query
          THEN {<<"stats_query", 0, stats_query.pc>>} ELSE {})
    \cup (IF persistence' # persistence /\ lifespan' = lifespan
          THEN {<<"persistence", 0, persistence.pc>>} ELSE {})
    \cup (IF lifespan' # lifespan THEN {<<"lifespan", 0, lifespan>>} ELSE {})

\* the tasks that hold self._lock while the step runs
LockHolders == {t \in Stepping : <<t[1], t[3]>> \in LockedSections}

\* ----------------------------------------------------------- specifications

\* the ingestion pipeline: admission, the worker pool, the store
Ingest ==
    \/ \E r \in Requests, n \in 0..MaxBatch : IngestBegin(r, n)
    \/ \E r \in Requests, e \in Events : IngestPut(r, e)
    \/ \E r \in Requests : IngestReject(r)
    \/ \E r \in Requests : IngestRecord(r)

Work ==
    \/ \E w \in Workers : WorkerScore(w)
    \/ \E w \in Workers : WorkerScoreRaises(w)
    \/ \E w \in Workers : WorkerInsert(w)
    \/ \E w \in Workers : WorkerTrim(w)

Next ==
    \/ LifespanStartup
    \/ Ingest
    \/ Work

Spec == Init /\ [][Next]_vars

\* the store's read operations on a store that holds any sorted windows: the
\* query handlers and the clock
Scores == {Forward(f) : f \in {v \in FeatureVectors : ~ScorerRaises(v)}}

SortedWindows ==
    {w \in UNION {[1..n -> Timestamps \X Scores] : n \in 0..MaxWindow} :
        \A i \in 1..(Len(w) - 1) : w[i][1] <= w[i + 1][1]}

InitQueries ==
    /\ event_queue = <<>>
    /\ user_windows \in UNION {[D -> SortedWindows] : D \in SUBSET Users}
    /\ window_seconds = WindowSeconds
    /\ ingest_requests_total = 0
    /\ events_received_total = 0
    /\ ingest_last_ts = 0
    /\ inference_calls = 0
    /\ queue_rejections = 0
    /\ state_file = None
    /\ files = [p \in Paths |-> Absent]
    /\ now = StartTime
    /\ lifespan = "running"
    /\ restarts = 0
    /\ worker = [w \in Workers |-> IdleWorker]
    /\ persistence = NoPersistence
    /\ request = [r \in Requests |-> NewRequest]
    /\ user_query = IdleUserQuery
    /\ stats_query = IdleStatsQuery

NextQueries ==
    \/ Tick
    \/ \E u \in Users : UserMedianTrim(u)
    \/ UserMedianRespond
    \/ StatsSnapshot
    \/ StatsReturn

SpecQueries == InitQueries /\ [][NextQueries]_vars

\* the service with its state file: startup load, the persistence timer,
\* crashes and shutdown, around a pipeline fed by one request
PriorData ==
    SaveData(StoreRecord(WindowSeconds, [u \in {"u1"} |-> <<<<1, 4>>>>],
                         1, 1, StartTime, 1, 0))

MalformedData ==
    ("window_seconds" :> WindowSeconds + 1)
    @@ ("user_windows" :> [u \in {"u1"} |-> <<<<1>>>>])

InitialContents ==
    {Absent, Garbage, ArrayDoc, ObjectDoc(MalformedData), ObjectDoc(PriorData)}

InitPersist ==
    /\ InitStore
    /\ InitProcess
    /\ state_file = StateFilePath
    /\ \E c \in InitialContents :
          files = [p \in Paths |-> IF p = StateFilePath THEN c ELSE Absent]

PersistEvents == {e \in Events : e.user_id = "u1" /\ e.features # <<4, 4, 0>>}

NextPersist ==
    \/ LifespanStartup
    \/ \E n \in 0..MaxBatch : IngestBegin(1, n)
    \/ \E e \in PersistEvents : IngestPut(1, e)
    \/ IngestReject(1)
    \/ IngestRecord(1)
    \/ Work
    \/ SaveCapture
    \/ SaveOpenTmp
    \/ SaveDump
    \/ SaveDumpFails
    \/ SaveReplace
    \/ LifespanCancel
    \/ LifespanAwait
    \/ LifespanFinalSave
    \/ Crash

SpecPersist == InitPersist /\ [][NextPersist]_vars

\* the running service with its state file and its persistence timer, with no
\* shutdown and no kill.  The timer of asyncio.sleep fires and the event loop
\* runs the rest of save_to_file (weak fairness); a write that is tried again
\* and again succeeds in the end (strong fairness of the successful dump)
NextPersistLive ==
    \/ LifespanStartup
    \/ \E n \in 0..MaxBatch : IngestBegin(1, n)
    \/ \E e \in PersistEvents : IngestPut(1, e)
    \/ IngestReject(1)
    \/ IngestRecord(1)
    \/ Work
    \/ SaveCapture
    \/ SaveOpenTmp
    \/ SaveDump
    \/ SaveDumpFails
    \/ SaveReplace

SpecPersistLive ==
    /\ InitPersist
    /\ [][NextPersistLive]_vars
    /\ WF_vars(SaveCapture)
    /\ WF_vars(SaveOpenTmp)
    /\ SF_vars(SaveDump)
    /\ WF_vars(SaveReplace)

\* the service answering queries while it scores: one ingest call of events
\* the scorer accepts, the worker pool, the clock and the two query handlers
MixedEvents ==
    {e \in [user_id : Users, timestamp : 1..(MaxTs + 1), features : FeatureVectors] :
        ~ScorerRaises(e.features)}

NextMixed ==
    \/ LifespanStartup
    \/ Tick
    \/ \E n \in 0..MaxBatch : IngestBegin(1, n)
    \/ \E e \in MixedEvents : IngestPut(1, e)
    \/ IngestReject(1)
    \/ IngestRecord(1)
    \/ \E w \in Workers : WorkerScore(w)
    \/ \E w \in Workers : WorkerInsert(w)
    \/ \E w \in Workers : WorkerTrim(w)
    \/ \E u \in Users : UserMedianTrim(u)
    \/ UserMedianRespond
    \/ StatsSnapshot
    \/ StatsReturn

SpecMixed == Init /\ [][NextMixed]_vars

\* the running pipeline with a scorer that returns a score for every event and
\* no shutdown: the server runs lifespan() up to its yield, and the event loop
\* runs every worker task that can take a step (weak fairness of the startup
\* and of each step of each worker)
LiveEvents == {e \in MixedEvents : e.features = <<4, 0, 0>>}

NextLive ==
    \/ LifespanStartup
    \/ \E n \in 0..MaxBatch : IngestBegin(1, n)
    \/ \E e \in LiveEvents : IngestPut(1, e)
    \/ IngestReject(1)
    \/ IngestRecord(1)
    \/ \E w \in Workers : WorkerScore(w)
    \/ \E w \in Workers : WorkerInsert(w)
    \/ \E w \in Workers : WorkerTrim(w)

SpecLive ==
    /\ Init
    /\ [][NextLive]_vars
    /\ WF_vars(LifespanStartup)
    /\ \A w \in Workers :
          WF_vars(WorkerScore(w)) /\ WF_vars(WorkerInsert(w)) /\ WF_vars(WorkerTrim(w))

\* --------------------------------------------------------------- properties

Range(f) == {f[x] : x \in DOMAIN f}

\* no ingest call is between its first put and its response
NoIngestInFlight == \A r \in Requests : request[r].pc \in {"new", "done"}

\* no worker has taken anything from the queue
NoDraining == inference_calls = 0 /\ \A w \in Workers : worker[w].pc \in {"new", "get"}

\* the entries of a window whose timestamp is at least the cutoff, in order
InWindow(window, cutoff) == SelectSeq(window, LAMBDA e : e[1] >= cutoff)

\* every stored window is non-decreasing by timestamp
WindowsSorted ==
    \A u \in DOMAIN user_windows :
        \A i \in 1..(Len(user_windows[u]) - 1) :
            user_windows[u][i][1] <= user_windows[u][i + 1][1]

\* a worker's insert puts the new entry after every entry with the same or a
\* smaller timestamp and before every entry with a larger one
InsertPlacement ==
    \A w \in Workers :
        (worker[w].pc = "insert" /\ worker'[w].pc = "trim") =>
            LET u == worker[w].event.user_id
                ts == worker[w].event.timestamp
                old == WindowOf(user_windows, u)
                k == Cardinality({i \in 1..Len(old) : old[i][1] <= ts})
            IN /\ u \in DOMAIN user_windows'
               /\ user_windows'[u] =
                    SubSeq(old, 1, k) \o <<<<ts, worker[w].score>>>>
                        \o SubSeq(old, k + 1, Len(old))
               /\ \A i \in 1..k : old[i][1] <= ts
               /\ \A i \in (k + 1)..Len(old) : old[i][1] > ts
               /\ \A v \in DOMAIN user_windows : v # u => user_windows'[v] = user_windows[v]

\* C1: every stored window is non-decreasing by timestamp after every step of
\* any interleaving of the workers' inserts and trims, and an insert puts the
\* new entry after every entry with the same or a smaller timestamp, leaving
\* the other entries and the other windows as they were
C1_WindowOrdering == []WindowsSorted /\ [][InsertPlacement]_vars

\* two entries of one timestamp stand in arrival order, the later one second,
\* though its score is the smaller one
C1_Witness ==
    \E u \in DOMAIN user_windows :
        /\ Len(user_windows[u]) >= 2
        /\ user_windows[u][1][1] = user_windows[u][2][1]
        /\ user_windows[u][1][2] > user_windows[u][2][2]

\* what a trim_user_window call of the median handler leaves and returns
TrimCorrect ==
    (user_query.pc = "idle" /\ user_query'.pc = "trimmed") =>
        LET u == user_query'.user_id
            cutoff == user_query'.cutoff
            old == WindowOf(user_windows, u)
        IN /\ cutoff = now - window_seconds
           /\ user_query'.window = InWindow(old, cutoff)
           /\ WindowOf(user_windows', u) = user_query'.window
           /\ DOMAIN user_windows' = DOMAIN user_windows
           /\ \A v \in DOMAIN user_windows : v # u => user_windows'[v] = user_windows[v]

\* C2: a call of trim_user_window(user, cutoff) on a sorted window leaves in
\* the stored window exactly the entries with timestamp >= cutoff, in their
\* order, removes only entries with timestamp < cutoff, touches no other
\* window, and returns the stored window it leaves
C2_TrimCorrectness == [][TrimCorrect]_vars

\* a trim returned a window that starts with an entry exactly at the cutoff
C2_Witness ==
    /\ user_query.pc = "trimmed"
    /\ user_query.window # <<>>
    /\ user_query.window[1][1] = user_query.cutoff
    /\ Len(user_query.window) >= 2

\* the k-th smallest of a list of numbers, by counting
Kth(data, k) ==
    CHOOSE v \in Range(data) :
        /\ Cardinality({i \in DOMAIN data : data[i] < v}) < k
        /\ Cardinality({i \in DOMAIN data : data[i] <= v}) >= k

MiddleOf(data) ==
    LET n == Len(data)
    IN IF n % 2 = 1
       THEN Kth(data, (n + 1) \div 2)
       ELSE (Kth(data, n \div 2) + Kth(data, (n \div 2) + 1)) \div 2

\* the users with an entry in the window, and the median of their medians
Qualifying(windows, cutoff) ==
    {u \in DOMAIN windows : InWindow(windows[u], cutoff) # <<>>}

RECURSIVE UserMedians(_, _, _)
UserMedians(windows, users, cutoff) ==
    IF users = {} THEN <<>>
    ELSE LET u == CHOOSE x \in users : TRUE
         IN <<MiddleOf(ScoresOf(InWindow(windows[u], cutoff)))>>
                \o UserMedians(windows, users \ {u}, cutoff)

DirectMedianOfMedians(windows, cutoff) ==
    LET q == Qualifying(windows, cutoff)
    IN IF q = {}
       THEN NoData
       ELSE [kind |-> "value", value |-> MiddleOf(UserMedians(windows, q, cutoff))]

\* the cutoff of a median_of_medians call, and what the call returns when the
\* store is as it was when the snapshot was taken
StatsConsistent ==
    /\ (stats_query.pc = "idle" /\ stats_query'.pc = "snapshot") =>
            stats_query'.cutoff = now - window_seconds
    /\ (/\ stats_query.pc = "snapshot"
        /\ stats_query'.pc = "idle"
        /\ WindowsSnapshot(user_windows) = stats_query.snapshot) =>
            /\ stats_query'.response =
                    DirectMedianOfMedians(user_windows, stats_query.cutoff)
            /\ (stats_query'.response.kind = "none"
                    <=> Qualifying(user_windows, stats_query.cutoff) = {})

\* C3: with no write between its snapshot and its return, median_of_medians
\* returns the median over the medians of the users with an entry at or after
\* reference_ts - window_seconds, and no-data exactly when no user has one
C3_AggregateConsistency == [][StatsConsistent]_vars

\* two users qualify, one with two entries: medians 6 and 4, aggregate 5
C3_Witness ==
    /\ stats_query.pc = "idle"
    /\ stats_query.response = [kind |-> "value", value |-> 5]
    /\ Cardinality(Qualifying(user_windows, stats_query.cutoff)) = 2

\* the events of rejected batches that found no slot: the rejected one and
\* those behind it
RECURSIVE OverflowEvents(_)
OverflowEvents(rs) ==
    IF rs = {} THEN 0
    ELSE LET r == CHOOSE x \in rs : TRUE
         IN (IF request[r].status = "503"
             THEN request[r].batch_size - request[r].accepted ELSE 0)
            + OverflowEvents(rs \ {r})

RECURSIVE AcceptedEvents(_)
AcceptedEvents(rs) ==
    IF rs = {} THEN 0
    ELSE LET r == CHOOSE x \in rs : TRUE
         IN request[r].accepted + AcceptedEvents(rs \ {r})

Rejected == {r \in Requests : request[r].status = "503"}

\* C4 as stated: with no draining, queue_rejections grows by the number of
\* overflow events, also when they arrive inside one batch
C4_RejectionsCountOverflowEvents ==
    (NoDraining /\ NoIngestInFlight) => queue_rejections = OverflowEvents(Requests)

\* C4 as amended: the queue never holds more than its capacity; with no
\* draining every accepted event is still queued and a call is answered
\* CapacityExceeded only on a full queue; queue_rejections grows by exactly one
\* for each call answered CapacityExceeded, whose batch then holds at least one
\* event that was not enqueued, and a call answered 200 had all its events
\* enqueued
C4_AdmissionBound ==
    /\ Len(event_queue) <= QueueMaxsize
    /\ queue_rejections = Cardinality(Rejected)
    /\ \A r \in Rejected : request[r].accepted < request[r].batch_size
    /\ \A r \in Requests :
          request[r].status = "ok" => request[r].accepted = request[r].batch_size
    /\ NoDraining =>
          /\ Len(event_queue) = AcceptedEvents(Requests)
          /\ Rejected # {} => Len(event_queue) = QueueMaxsize

\* one call was answered CapacityExceeded with two events of its batch not
\* enqueued, and no worker has drained the queue
C4_Witness ==
    /\ NoDraining
    /\ \E r \in Rejected : request[r].batch_size - request[r].accepted >= 2

\* C5: whenever no ingest call and no worker is in the middle of its work, the
\* events queued or scored are counted in events_received_total
C5_AcceptedEventsCounted ==
    (NoIngestInFlight /\ \A w \in Workers : worker[w].pc \in {"new", "get", "raised"}) =>
        Len(event_queue) + inference_calls <= events_received_total

\* C9: a scorer failure leaves every worker alive
C9_WorkersStayAlive ==
    lifespan = "running" => \A w \in Workers : worker[w].pc \in {"get", "insert", "trim"}

\* a store as AppState(window_seconds = ws) leaves it
FreshStore(ws) == [DefaultStore EXCEPT !.window_seconds = ws]

\* load_from_file into a fresh store from the files as they are
Reloaded(fs, ws) == LoadFromFile(FreshStore(ws), state_file, fs)

\* the rename that ends a save, followed by a load into a fresh store
SaveThenLoad ==
    (persistence.pc = "replace" /\ persistence'.pc = "sleep") =>
        \A ws \in {WindowSeconds, WindowSeconds + 1} :
            /\ ~Reloaded(files', ws).raised
            /\ Reloaded(files', ws).store = CurrentStore

\* C6: once save_to_file has replaced the snapshot file, load_from_file into a
\* fresh store gives the store that was saved: the same window_seconds, the
\* same five counters, the same windows of the same users in the same order
C6_RoundTrip == [][SaveThenLoad]_vars

\* the process was started again and has loaded the snapshot its first run
\* saved: the store is the saved one, with a scored entry and a counted request
C6_Witness ==
    /\ restarts > 0
    /\ lifespan = "running"
    /\ files[StateFilePath] = ObjectDoc(SaveData(CurrentStore))
    /\ files[StateFilePath].value # PriorData
    /\ \E u \in DOMAIN user_windows : user_windows[u] # <<>>
    /\ inference_calls > 0
    /\ ingest_requests_total > 0

\* content that is no snapshot: text that does not parse, or a document of the
\* wrong shape
InvalidContent(f) ==
    \/ f.kind \in {"garbage", "partial", "array"}
    \/ /\ f.kind = "object"
       /\ ~Unpackable(DictGet(f.value, "user_windows", EmptyWindows))

\* C7: when the snapshot file holds invalid content, load_from_file returns
\* without raising and leaves the store as AppState.__init__ made it
C7_InvalidLoadHarmless ==
    (/\ state_file # None
     /\ InvalidContent(files[state_file])
     /\ lifespan # "new"
     /\ \A r \in Requests : request[r].pc = "new") =>
        /\ lifespan # "failed"
        /\ CurrentStore = DefaultStore

\* the snapshot file holds no partly written snapshot
TargetNeverPartial == state_file # None => files[state_file].kind # "partial"

\* the snapshot file changes only in the rename, to the complete dump
TargetReplacedWhole ==
    (state_file # None /\ files'[state_file] # files[state_file]) =>
        /\ persistence.pc = "replace"
        /\ files'[state_file] = ObjectDoc(persistence.data)
        /\ "window_seconds" \in DOMAIN persistence.data

\* C8: at every step of save_to_file, and after a kill of the process at any
\* step, the snapshot file never holds a partly written snapshot, and its
\* content changes only in the rename, to the complete dump of the dict that
\* the save captured
C8_AtomicReplace == []TargetNeverPartial /\ [][TargetReplacedWhole]_vars

\* the process was killed while the temp file was half written, and the
\* snapshot file still holds the complete snapshot of an earlier save
C8_Witness ==
    /\ restarts > 0
    /\ lifespan = "new"
    /\ files[WithSuffixTmp(StateFilePath)] = Partial
    /\ files[StateFilePath].kind = "object"
    /\ files[StateFilePath].value # PriorData

\* C10: after shutdown the snapshot file holds the store's final state
C10_ShutdownSaves ==
    lifespan = "stopped" => files[StateFilePath] = ObjectDoc(SaveData(CurrentStore))

\* a median query for a user the mapping has no entry for, and an aggregate
\* query on a store in which no user holds data
UnknownUserRead ==
    /\ (/\ user_query.pc = "idle"
        /\ user_query'.pc = "trimmed"
        /\ user_query'.user_id \notin DOMAIN user_windows) =>
            /\ user_query'.window = <<>>
            /\ user_windows' = user_windows
    /\ (/\ user_query.pc = "trimmed"
        /\ user_query'.pc = "idle"
        /\ user_query.user_id \notin DOMAIN user_windows) =>
            /\ user_query'.response = NoData
            /\ user_windows' = user_windows
    /\ (/\ stats_query.pc = "idle"
        /\ stats_query'.pc = "snapshot"
        /\ \A u \in DOMAIN user_windows : user_windows[u] = <<>>) =>
            /\ stats_query'.snapshot = EmptyWindows
            /\ user_windows' = user_windows
    /\ (/\ stats_query.pc = "snapshot"
        /\ stats_query'.pc = "idle"
        /\ stats_query.snapshot = EmptyWindows) =>
            stats_query'.response = NoData

\* C11: trim_user_window for a user_id that has no entry in the mapping returns
\* an empty list and leaves the mapping as it was, no entry created, and the
\* handler answers no-data; with no user holding data median_of_medians
\* returns no-data
C11_UnknownUserNoEffect == [][UnknownUserRead]_vars

\* a median query for a user without an entry has returned the empty list
\* while another user holds data
C11_Witness ==
    /\ user_query.pc = "trimmed"
    /\ user_query.user_id \notin DOMAIN user_windows
    /\ user_query.window = <<>>
    /\ \E v \in DOMAIN user_windows : user_windows[v] # <<>>

\* every entry of the window has a timestamp at or after the cutoff
FreshAt(window, cutoff) == \A i \in 1..Len(window) : window[i][1] >= cutoff

\* no worker stands between its insert and its trim for the user
NoTrimPending(u) ==
    \A w \in Workers : ~(worker[w].pc = "trim" /\ worker[w].event.user_id = u)

\* C12 as stated: whenever no worker is between its insert and its trim for a
\* user, every entry of that user's window has timestamp >= now - window_seconds
C12_WindowFreshness ==
    \A u \in DOMAIN user_windows :
        NoTrimPending(u) => FreshAt(user_windows[u], now - window_seconds)

\* what a trim leaves: a worker's trim with the cutoff of its event, the
\* median handler's trim with the cutoff of the clock
TrimLeavesFresh ==
    /\ \A w \in Workers :
          (worker[w].pc = "trim" /\ worker'[w].pc = "get") =>
              FreshAt(WindowOf(user_windows', worker[w].event.user_id),
                      worker[w].event.timestamp - window_seconds)
    /\ (user_query.pc = "idle" /\ user_query'.pc = "trimmed") =>
          /\ user_query'.cutoff = now - window_seconds
          /\ FreshAt(user_query'.window, now - window_seconds)
          /\ FreshAt(WindowOf(user_windows', user_query'.user_id),
                     now - window_seconds)

\* C12 as amended: right after a trim every entry of the trimmed window has a
\* timestamp at or after that trim's cutoff, which is event.timestamp -
\* window_seconds for a worker's trim and now - window_seconds for the median
\* handler's trim, so a window the median handler returns holds fresh entries
\* only
C12_FreshAfterTrim == [][TrimLeavesFresh]_vars

\* a worker has finished its trim for an event older than now - window_seconds
\* and the entry of that event is stored; a median query has since evicted
\* nothing from this window
C12_Witness ==
    /\ \A w \in Workers : worker[w].pc = "get"
    /\ inference_calls > 0
    /\ \E u \in DOMAIN user_windows :
          /\ user_windows[u] # <<>>
          /\ user_windows[u][1][1] < now - window_seconds
          /\ Len(user_windows[u]) = inference_calls

\* the number of entries the store holds
RECURSIVE EntriesOf(_, _)
EntriesOf(windows, users) ==
    IF users = {} THEN 0
    ELSE LET u == CHOOSE x \in users : TRUE
         IN Len(windows[u]) + EntriesOf(windows, users \ {u})

TotalEntries(windows) == EntriesOf(windows, DOMAIN windows)

WorkersAt(pc) == {w \in Workers : worker[w].pc = pc}

\* every accepted event is in the queue or was taken from it once, and every
\* entry of the store comes from one scored event
EventsConserved ==
    /\ Len(event_queue) + inference_calls + Cardinality(WorkersAt("raised"))
            = AcceptedEvents(Requests)
    /\ TotalEntries(user_windows) + Cardinality(WorkersAt("insert")) <= inference_calls
    /\ \A w \in Workers :
          worker[w].pc \in {"insert", "trim"} <=> worker[w].event # NoEvent

\* a step hands the head of the queue to one worker, adds one entry for the
\* event one worker holds, or enqueues the event of a call that is not rejected
ConsumedOnce ==
    /\ Len(event_queue') < Len(event_queue) =>
          /\ event_queue' = Tail(event_queue)
          /\ \E w \in Workers :
                /\ worker[w].pc = "get"
                /\ \/ worker'[w].pc = "insert" /\ worker'[w].event = Head(event_queue)
                   \/ worker'[w].pc = "raised" /\ worker'[w].event = NoEvent
                /\ \A v \in Workers \ {w} : worker'[v] = worker[v]
    /\ Len(event_queue') > Len(event_queue) =>
          /\ SubSeq(event_queue', 1, Len(event_queue)) = event_queue
          /\ Len(event_queue') = Len(event_queue) + 1
          /\ \E r \in Requests :
                /\ request'[r].accepted = request[r].accepted + 1
                /\ request'[r].status # "503"
                /\ \A q \in Requests \ {r} : request'[q] = request[q]
    /\ \A r \in Requests :
          (request[r].status # "503" /\ request'[r].status = "503") =>
              /\ event_queue' = event_queue
              /\ request'[r].accepted = request[r].accepted
    /\ TotalEntries(user_windows') > TotalEntries(user_windows) =>
          \E w \in Workers :
              /\ worker[w].pc = "insert" /\ worker'[w].pc = "trim"
              /\ \A v \in Workers \ {w} : worker'[v] = worker[v]
              /\ TotalEntries(user_windows') = TotalEntries(user_windows) + 1
              /\ Len(WindowOf(user_windows', worker[w].event.user_id))
                    = Len(WindowOf(user_windows, worker[w].event.user_id)) + 1
    /\ \A w \in Workers :
          (worker[w].pc = "trim" /\ worker'[w].pc # "trim") =>
              worker'[w].event = NoEvent

\* C13: with several workers draining the queue in any interleaving, every
\* accepted event is taken from the queue by exactly one worker and gives at
\* most one entry of the store; no event is scored or inserted twice, and the
\* event of a rejected put is never queued, scored or inserted
C13_ExactlyOnce == []EventsConserved /\ [][ConsumedOnce]_vars

\* both workers hold an event they took from the queue, one call was rejected,
\* and the queue is empty
C13_Witness ==
    /\ \A w \in Workers : worker[w].pc = "insert"
    /\ Rejected # {}
    /\ event_queue = <<>>

\* a step of a process that has done its startup load lowers no counter
CountersMonotone ==
    (lifespan # "new" /\ lifespan' # "new") =>
        /\ ingest_requests_total' >= ingest_requests_total
        /\ events_received_total' >= events_received_total
        /\ inference_calls' >= inference_calls
        /\ queue_rejections' >= queue_rejections

\* C14: after the startup load, across any interleaving of ingest calls,
\* worker steps, saves and the shutdown, none of ingest_requests_total,
\* events_received_total, inference_calls and queue_rejections decreases
C14_CountersMonotone == [][CountersMonotone]_vars

\* the counters loaded from the snapshot have grown: a second request was
\* recorded with its events and a second event was scored
C14_Witness ==
    /\ lifespan = "running"
    /\ ingest_requests_total > PriorData["ingest_requests_total"]
    /\ events_received_total > PriorData["events_received_total"]
    /\ inference_calls > PriorData["inference_calls"]

\* after a trim by the median handler, a second trim_user_window call with the
\* same user and cutoff on the store as the first call left it
TrimAgain ==
    (user_query.pc = "idle" /\ user_query'.pc = "trimmed") =>
        LET again == TrimUserWindow(user_windows', user_query'.user_id,
                                    user_query'.cutoff)
        IN /\ again.windows = user_windows'
           /\ again.ret = user_query'.window

\* C15: a second trim_user_window(user, cutoff) call with the same cutoff and
\* no insert in between removes nothing and returns the contents the first
\* call returned
C15_TrimIdempotent == [][TrimAgain]_vars

\* a trim at a cutoff above the oldest timestamp has returned one entry, which
\* stands exactly at the cutoff
C15_Witness ==
    /\ user_query.pc = "trimmed"
    /\ user_query.cutoff > 1
    /\ Len(user_query.window) = 1
    /\ user_query.window[1][1] = user_query.cutoff
    /\ user_windows[user_query.user_id] = user_query.window

\* the copy median_of_medians takes is the store of that instant: every
\* non-empty window, whole; no later step changes the copy or the cutoff; and
\* the value returned is the direct computation on the copy
SnapshotIsolated ==
    /\ (stats_query.pc = "idle" /\ stats_query'.pc = "snapshot") =>
          /\ stats_query'.cutoff = now - window_seconds
          /\ DOMAIN stats_query'.snapshot =
                {u \in DOMAIN user_windows : user_windows[u] # <<>>}
          /\ \A u \in DOMAIN stats_query'.snapshot :
                stats_query'.snapshot[u] = user_windows[u]
          /\ user_windows' = user_windows
    /\ (stats_query.pc = "snapshot" /\ stats_query'.pc = "snapshot") =>
          stats_query' = stats_query
    /\ (stats_query.pc = "snapshot" /\ stats_query'.pc = "idle") =>
          /\ stats_query'.response =
                DirectMedianOfMedians(stats_query.snapshot, stats_query.cutoff)
          /\ user_windows' = user_windows

\* C16: when inserts and trims by workers interleave with a median_of_medians
\* call, the value returned is the direct median of medians, with the single
\* cutoff reference_ts - window_seconds, of the store as it was at the one
\* instant the snapshot was taken; writes after that instant do not change
\* the result, and every window of the snapshot is a whole stored window
C16_SnapshotConsistency == [][SnapshotIsolated]_vars

\* a median_of_medians call holds its snapshot while a worker's write has
\* changed the store, so that the direct computation on the store of now
\* differs from the one on the snapshot
C16_Witness ==
    /\ stats_query.pc = "snapshot"
    /\ stats_query.snapshot # EmptyWindows
    /\ DirectMedianOfMedians(user_windows, stats_query.cutoff)
          # DirectMedianOfMedians(stats_query.snapshot, stats_query.cutoff)
    /\ DirectMedianOfMedians(stats_query.snapshot, stats_query.cutoff).kind = "value"

\* C17: every step that changes a window or one of the five counters is taken
\* by a task that holds the store's lock while it takes it, and at most one
\* task holds the lock at a time
C17_SingleCriticalSection ==
    [][/\ Cardinality(LockHolders) <= 1
       /\ (user_windows' # user_windows \/ counters' # counters) =>
              Cardinality(LockHolders) = 1]_vars

\* C18 as stated: when median_of_medians(reference_ts) returns, no stored
\* window holds an entry with timestamp < reference_ts - window_seconds
C18_AggregateTrimsOnRead ==
    [][(stats_query.pc = "snapshot" /\ stats_query'.pc = "idle") =>
          \A u \in DOMAIN user_windows' :
              FreshAt(user_windows'[u], stats_query.cutoff)]_vars

\* median_of_medians writes nothing: its snapshot step and its return leave
\* every stored window as it was, and the entries before the cutoff are left
\* out of the computation only
AggregateReadOnly ==
    /\ (stats_query.pc = "idle" /\ stats_query'.pc = "snapshot") =>
          /\ user_windows' = user_windows
          /\ \A u \in DOMAIN stats_query'.snapshot :
                stats_query'.snapshot[u] = user_windows[u]
    /\ (stats_query.pc = "snapshot" /\ stats_query'.pc = "idle") =>
          /\ user_windows' = user_windows
          /\ stats_query'.response =
                DirectMedianOfMedians(
                    [u \in DOMAIN stats_query.snapshot |->
                        InWindow(stats_query.snapshot[u], stats_query.cutoff)],
                    stats_query.cutoff)

\* C18 as amended: median_of_medians evicts nothing; it leaves the entries
\* with timestamp < reference_ts - window_seconds out of its computation on
\* the snapshot and leaves every stored window as it was
C18_AggregateReadOnly == [][AggregateReadOnly]_vars

\* median_of_medians has returned a value for a cutoff, and a stored window
\* still holds an entry older than that cutoff
C18_Witness ==
    /\ stats_query.pc = "idle"
    /\ stats_query.response.kind = "value"
    /\ stats_query.cutoff = now - window_seconds
    /\ \E u \in DOMAIN user_windows : ~FreshAt(user_windows[u], stats_query.cutoff)

\* the persistence_worker task of a running service is in its loop
PersistenceAlive ==
    (lifespan = "running" /\ state_file # None) =>
        persistence.pc \in {"sleep", "open", "dump", "replace"}

\* a save that fails leaves the loop asleep until the next interval and
\* reaches no other task and no caller
FailureSwallowed ==
    (persistence.pc = "dump" /\ persistence'.pc # "replace") =>
        /\ persistence'.pc = "sleep"
        /\ UNCHANGED <<lifespan, worker, request, store, event_queue>>

\* the snapshot file holds the store as it is
Durable ==
    /\ state_file # None
    /\ files[state_file] = ObjectDoc(SaveData(CurrentStore))

\* C19: a save that fails does not end the persistence loop and reaches no
\* caller, the loop tries again after every failed save, and in a service that
\* keeps running, once the store has stopped changing and a write succeeds,
\* the snapshot file comes to hold the store's state and keeps holding it
C19_PersistenceKeepsGoing ==
    /\ []PersistenceAlive
    /\ [][FailureSwallowed]_vars
    /\ (<>[](lifespan = "running")) => <>[]Durable

\* a save has failed part way, leaving its half-written temp file, and the
\* loop sleeps until its next attempt while the store holds a scored event
\* the snapshot file does not have
C19_Witness ==
    /\ lifespan = "running"
    /\ persistence.pc = "sleep"
    /\ files[WithSuffixTmp(StateFilePath)] = Partial
    /\ inference_calls > 0
    /\ ~Durable

\* a worker that takes a step takes the head of the queue and scores it, then
\* stores the entry of its event, then trims the user's window to the entries
\* at or after event.timestamp - window_seconds and waits for the next event
WorkerInsertsThenTrims ==
    \A w \in Workers :
        /\ (worker[w].pc = "get" /\ worker'[w].pc # "get") =>
              /\ event_queue # <<>>
              /\ event_queue' = Tail(event_queue)
              /\ worker'[w].pc = "insert"
              /\ worker'[w].event = Head(event_queue)
              /\ inference_calls' = inference_calls + 1
        /\ (worker[w].pc = "insert" /\ worker'[w].pc # "insert") =>
              /\ worker'[w].pc = "trim"
              /\ worker'[w].event = worker[w].event
              /\ \E i \in 1..Len(WindowOf(user_windows', worker[w].event.user_id)) :
                    user_windows'[worker[w].event.user_id][i]
                        = <<worker[w].event.timestamp, worker[w].score>>
        /\ (worker[w].pc = "trim" /\ worker'[w].pc # "trim") =>
              /\ worker'[w].pc = "get"
              /\ WindowOf(user_windows', worker[w].event.user_id)
                    = InWindow(WindowOf(user_windows, worker[w].event.user_id),
                               worker[w].event.timestamp - window_seconds)

\* the queue is empty, every worker waits for the next event and every
\* accepted event was scored
Drained ==
    /\ event_queue = <<>>
    /\ \A w \in Workers : worker[w].pc = "get"
    /\ inference_calls = AcceptedEvents(Requests)

\* C20: under weak fairness of the worker tasks, with a scorer that returns a
\* score for every event and no shutdown, every accepted event is eventually
\* taken from the queue and scored, inserted into its user's window and
\* followed by that worker's trim with cutoff event.timestamp - window_seconds:
\* the workers take these steps in this order only, and every behaviour ends,
\* once submissions have ceased, with the queue empty, every worker waiting
\* for the next event and inference_calls equal to the number of accepted
\* events
C20_PipelineLiveness ==
    /\ [][WorkerInsertsThenTrims]_vars
    /\ <>[]Drained

\* two accepted events were scored and the pipeline is drained; the trim that
\* followed the second insert evicted the entry of the first event
C20_Witness ==
    /\ Drained
    /\ NoIngestInFlight
    /\ inference_calls = 2
    /\ TotalEntries(user_windows) = 1

====
